---------------------------- MODULE Spec2Model ----------------------------
(***************************************************************************)
(* State machine of the segment / special point / puncture editor of       *)
(* src/gui_jw.py (class App): the geometric store, the coordinate          *)
(* transforms, endpoint snapping, projection, and the undo/redo history.   *)
(*                                                                         *)
(* A Fraction is the pair <<numerator, denominator>> in lowest terms with  *)
(* a positive denominator; a world point is a pair of Fractions; an id     *)
(* f"L{n}" is the pair <<"L", n>>.  Pixel positions computed with floats    *)
(* in the source (world_to_screen) are computed exactly here; the canvas   *)
(* sizes below give px_per_unit a power of two, for which the float        *)
(* arithmetic of the source is exact on every click position.             *)
(***************************************************************************)
EXTENDS Integers, Sequences, FiniteSets, TLC

\* ----- Config (src/gui_jw.py:35-43) -----
WORLD_RANGE == 30
BORDER_PADDING_PX == 16
SNAP_PX == 12
SNAP_TO_INTEGER == TRUE

\* ----- Bounds of the model -----
\* Largest number of snapshots on the history stack.
MaxHistory == 4
\* Largest number of set_mode and toggle_chain key presses in a run.
MaxUi == 1
\* Largest number of toggle_grid, toggle_snap and on_resize events in a run.
MaxDisplay == 1

\* Canvas sizes (winfo_width, winfo_height) the window can take.
CanvasSizes == {<<150, 150>>, <<152, 152>>}
InitialCanvas == <<150, 150>>
\* Pixel positions of the mouse clicks.
Clicks == {<<75, 75>>, <<79, 75>>}
Modes == {"segment", "point", "puncture"}

\* Python's None; an optional record r is <<r>>.
None == <<>>

VARIABLES
    mode, pending_p0, segments, special_points, punctures,
    next_seg_id, next_sp_id, next_puncture_id,
    grid_on, chain_mode, snap_to_integer,
    px_per_unit, canvas,
    history, future, restoring,
    status,
    ui, disp, pre, mark, seq

\* The program's state.  status is the message handed to render_sidebar by
\* the last handler that gave one, without the ids and numbers in it.
appvars == <<mode, pending_p0, segments, special_points, punctures,
             next_seg_id, next_sp_id, next_puncture_id,
             grid_on, chain_mode, snap_to_integer,
             px_per_unit, canvas, history, future, restoring, status>>
\* Observers of the run: the counts of mode and chain key presses (ui) and
\* of grid, snap and resize events (disp); the last operations, when they
\* are a reset or an undo and what followed it, with the store they started
\* from (pre); and a marked earlier session with the operations done since
\* (mark, seq).
obsvars == <<ui, disp, pre, mark, seq>>
vars == <<appvars, obsvars>>

\* ----- Fractions (fractions.Fraction) -----
Abs(a) == IF a < 0 THEN -a ELSE a

RECURSIVE GCD(_, _)
GCD(a, b) == IF b = 0 THEN a ELSE GCD(b, a % b)

LCM(a, b) == (a \div GCD(a, b)) * b

\* Fraction(n, d), d # 0: lowest terms, positive denominator.
Frac(n, d) ==
    LET g == GCD(Abs(n), Abs(d))
        s == IF d < 0 THEN -1 ELSE 1
    IN  <<(s * n) \div g, (s * d) \div g>>

FInt(k) == <<k, 1>>
FNeg(a) == <<-a[1], a[2]>>

\* a + b, over the least common denominator.
FAdd(a, b) ==
    LET l == LCM(a[2], b[2])
    IN  Frac(a[1] * (l \div a[2]) + b[1] * (l \div b[2]), l)

FSub(a, b) == FAdd(a, FNeg(b))

\* a * b, the common factors cancelled before the products are formed.
FMul(a, b) ==
    LET g1 == GCD(Abs(a[1]), b[2])
        g2 == GCD(Abs(b[1]), a[2])
    IN  <<(a[1] \div g1) * (b[1] \div g2), (a[2] \div g2) * (b[2] \div g1)>>

\* a / b, b # 0.
FDiv(a, b) == FMul(a, IF b[1] < 0 THEN <<-b[2], -b[1]>> ELSE <<b[2], b[1]>>)

\* n1/d1 < n2/d2 for positive d1, d2: the integer parts decide, or else the
\* reciprocals of the remainders (no product is formed).
RECURSIVE LessQ(_, _, _, _)
LessQ(n1, d1, n2, d2) ==
    LET q1 == n1 \div d1
        q2 == n2 \div d2
        r1 == n1 - q1 * d1
        r2 == n2 - q2 * d2
    IN  IF q1 # q2 THEN q1 < q2
        ELSE IF r2 = 0 THEN FALSE
        ELSE IF r1 = 0 THEN TRUE
        ELSE LessQ(d2, r2, d1, r1)

FLt(a, b) == LessQ(a[1], a[2], b[1], b[2])
FLe(a, b) == ~FLt(b, a)

\* dot(ax, ay, bx, by)
dot(ax, ay, bx, by) == FAdd(FMul(ax, bx), FMul(ay, by))

\* round(float(x)): nearest integer, a half going to the even neighbour.
RoundHalfEven(x) ==
    LET f == x[1] \div x[2]
        r == x[1] - f * x[2]
    IN  IF 2 * r < x[2] THEN f
        ELSE IF 2 * r > x[2] THEN f + 1
        ELSE IF f % 2 = 0 THEN f ELSE f + 1

Max(a, b) == IF a >= b THEN a ELSE b
Min(a, b) == IF a <= b THEN a ELSE b
Last(s) == s[Len(s)]
Front(s) == SubSeq(s, 1, Len(s) - 1)

\* ----- Auto-fit pixels-per-unit (on_resize, lines 153-159) -----
PxPerUnit(wh) ==
    LET w == Max(wh[1], 2)
        h == Max(wh[2], 2)
        usable_w == Max(w - 2 * BORDER_PADDING_PX, 2)
        usable_h == Max(h - 2 * BORDER_PADDING_PX, 2)
    IN  Max(1, Min(usable_w, usable_h) \div (2 * WORLD_RANGE))

\* ----- Coordinate transforms -----
\* world_to_screen(x, y): the pixel position of a world point.
world_to_screen(x, y) ==
    LET w == Max(canvas[1], 2)
        h == Max(canvas[2], 2)
    IN  <<FAdd(Frac(w, 2), FMul(x, FInt(px_per_unit))),
          FSub(Frac(h, 2), FMul(y, FInt(px_per_unit)))>>

\* A coordinate left as it is.
Unclamped(x) == x

\* The clamp of one coordinate to [-WORLD_RANGE, WORLD_RANGE].
Clamp(x) ==
    IF FLt(x, FInt(-WORLD_RANGE)) THEN FInt(-WORLD_RANGE)
    ELSE IF FLt(FInt(WORLD_RANGE), x) THEN FInt(WORLD_RANGE)
    ELSE x

\* The optional snap of one coordinate to the integer lattice.
SnapInt(x) == IF snap_to_integer THEN FInt(RoundHalfEven(x)) ELSE x

\* screen_to_world(sx, sy): the world point of a pixel position.
screen_to_world(sx, sy) ==
    LET w == Max(canvas[1], 2)
        h == Max(canvas[2], 2)
        x == Frac(2 * sx - w, 2 * px_per_unit)
        y == Frac(h - 2 * sy, 2 * px_per_unit)
    IN  <<Clamp(SnapInt(x)), Clamp(SnapInt(y))>>

\* ----- Endpoint SNAP logic -----
\* list_endpoints(): every segment's p0 then p1, in insertion order.
list_endpoints ==
    [i \in 1..(2 * Len(segments)) |->
        LET seg == segments[(i + 1) \div 2]
        IN  IF i % 2 = 1 THEN <<seg.p0, <<seg.id, "P0">>>>
            ELSE <<seg.p1, <<seg.id, "P1">>>>]

Sq(a) == FMul(a, a)

\* (ex - sx) ** 2 + (ey - sy) ** 2 of two pixel positions.
Dist2(e, s) == FAdd(Sq(FSub(e[1], s[1])), Sq(FSub(e[2], s[2])))

\* Squared pixel distance of a world point to the pixel (sx, sy).
PixelDist2(world_xy, sx, sy) ==
    Dist2(world_to_screen(world_xy[1], world_xy[2]), <<FInt(sx), FInt(sy)>>)

\* A test that also lets an equally distant candidate replace the best.
CloserOrEqual(d2, best) == best = None \/ FLe(d2, best[3])

\* Whether a candidate at squared distance d2 replaces the best so far.
Closer(d2, best) == best = None \/ FLt(d2, best[3])

\* One step of the loop: the best after the endpoint ep at distance d2.
NearestStep(ep, d2, best) ==
    IF Closer(d2, best) THEN <<ep[1], ep[2], d2>> ELSE best

\* The loop of nearest_endpoint_within_px over eps[i..]: best is None or
\* <<world_xy, label, d2>>.
RECURSIVE NearestLoop(_, _, _, _, _)
NearestLoop(eps, i, sx, sy, best) ==
    IF i > Len(eps) THEN best
    ELSE NearestLoop(eps, i + 1, sx, sy,
                     NearestStep(eps[i], PixelDist2(eps[i][1], sx, sy), best))

\* The test d <= max_px of a best <<world_xy, label, d2>>, on the square.
WithinSnap(best) ==
    IF best = None THEN None
    ELSE IF FLe(best[3], FInt(SNAP_PX * SNAP_PX)) THEN best
    ELSE None

\* nearest_endpoint_within_px(sx, sy): None, or <<world_xy, label, d2>> with
\* sqrt(d2) <= SNAP_PX, stated on the squared distance.
nearest_endpoint_within_px(sx, sy) ==
    WithinSnap(NearestLoop(list_endpoints, 1, sx, sy, None))

\* ----- Special point projection (handle_point_click, lines 389-412) -----
\* A parameter left as it is.
NoClamp(t_star) == t_star

\* The clamp of t_star to [0, 1] (lines 400-405).
ClampUnit(t_star) ==
    IF FLt(t_star, FInt(0)) THEN FInt(0)
    ELSE IF FLt(FInt(1), t_star) THEN FInt(1)
    ELSE t_star

\* A candidate that stays at p0 whatever t is.
StartPoint(p0, t, vx, vy) == p0

\* The point p0 + t * v (lines 406-407).
PointAt(p0, t, vx, vy) == <<FAdd(p0[1], FMul(t, vx)), FAdd(p0[2], FMul(t, vy))>>

\* The candidate of a segment at parameter t and point xy, with its squared
\* pixel distance to the query q (lines 408-412).
CandidateAt(seg, q, t, xy) ==
    [seg |-> seg, t |-> t, xy |-> xy,
     d2 |-> Dist2(world_to_screen(xy[1], xy[2]), world_to_screen(q[1], q[2]))]

\* The candidate of a segment with direction (vx, vy) at parameter t.
CandidateOn(seg, q, vx, vy, t) == CandidateAt(seg, q, t, PointAt(seg.p0, t, vx, vy))

\* The candidate of a segment with direction (vx, vy), vv = v.v: <<>> when
\* vv = 0, else <<[seg, t, xy, d2]>> (lines 395-412).
CandidateV(seg, q, vx, vy, vv) ==
    IF vv = FInt(0) THEN <<>>
    ELSE <<CandidateOn(seg, q, vx, vy,
               ClampUnit(FDiv(dot(FSub(q[1], seg.p0[1]), FSub(q[2], seg.p0[2]),
                                  vx, vy), vv)))>>

\* v.v of a direction.
Norm2(vx, vy) == dot(vx, vy, vx, vy)

CandidateD(seg, q, vx, vy) == CandidateV(seg, q, vx, vy, Norm2(vx, vy))

\* One segment's candidate for the query q (lines 391-412).
Candidate(seg, q) ==
    CandidateD(seg, q, FSub(seg.p1[1], seg.p0[1]), FSub(seg.p1[2], seg.p0[2]))

\* Whether the candidate c (not <<>>) replaces the best so far (line 411).
Better(c, best) == best = <<>> \/ FLt(c[1].d2, best[1].d2)

\* One step of the loop: the best after the candidate c.
ProjectStep(c, best) == IF c # <<>> /\ Better(c, best) THEN c ELSE best

\* The loop over the segments: best is <<>> or <<[seg, t, xy, d2]>>.
RECURSIVE ProjectLoop(_, _, _, _)
ProjectLoop(segs, i, q, best) ==
    IF i > Len(segs) THEN best
    ELSE ProjectLoop(segs, i + 1, q, ProjectStep(Candidate(segs[i], q), best))

\* ----- History (Undo/Redo) -----
\* A snapshot that leaves the punctures out.
SnapshotWithoutPunctures(m, pp, segs, sps, pus, nseg, nsp, npu, g, c) ==
    [mode |-> m, pending_p0 |-> pp, segments |-> segs,
     special_points |-> sps, punctures |-> <<>>,
     next_seg_id |-> nseg, next_sp_id |-> nsp, next_puncture_id |-> npu,
     grid_on |-> g, chain_mode |-> c]

\* snapshot(), of the given field values.
Snapshot(m, pp, segs, sps, pus, nseg, nsp, npu, g, c) ==
    [mode |-> m, pending_p0 |-> pp, segments |-> segs,
     special_points |-> sps, punctures |-> pus,
     next_seg_id |-> nseg, next_sp_id |-> nsp, next_puncture_id |-> npu,
     grid_on |-> g, chain_mode |-> c]

\* snapshot() of the current state.
CurrentSnapshot ==
    Snapshot(mode, pending_p0, segments, special_points, punctures,
             next_seg_id, next_sp_id, next_puncture_id, grid_on, chain_mode)

\* A push_state() that records nothing.
KeepHistory(h, snap) == h

\* push_state(): the history stack after it, snap being snapshot() then.
PushHistory(h, snap) == IF restoring THEN h ELSE Append(h, snap)

\* A push_state() that leaves the future stack alone.
KeepFuture(f) == f

\* push_state(): the future stack after it.
PushFuture(f) == IF restoring THEN f ELSE <<>>

\* restore_state(s): the ten fields of s become the live ones.
RestoreState(s) ==
    /\ mode' = s.mode
    /\ pending_p0' = s.pending_p0
    /\ segments' = s.segments
    /\ special_points' = s.special_points
    /\ punctures' = s.punctures
    /\ next_seg_id' = s.next_seg_id
    /\ next_sp_id' = s.next_sp_id
    /\ next_puncture_id' = s.next_puncture_id
    /\ grid_on' = s.grid_on
    /\ chain_mode' = s.chain_mode
    /\ status' = "State restored."
    /\ restoring' = FALSE

\* ----- Observers -----
\* The session a user sees: the snapshot fields and the snap toggle.
Session ==
    [mode |-> mode, pending_p0 |-> pending_p0, segments |-> segments,
     special_points |-> special_points, punctures |-> punctures,
     next_seg_id |-> next_seg_id, next_sp_id |-> next_sp_id,
     next_puncture_id |-> next_puncture_id,
     grid_on |-> grid_on, chain_mode |-> chain_mode,
     snap_to_integer |-> snap_to_integer]

\* The store: the three collections and the three counters.
Store ==
    [segments |-> segments, special_points |-> special_points,
     punctures |-> punctures, next_seg_id |-> next_seg_id,
     next_sp_id |-> next_sp_id, next_puncture_id |-> next_puncture_id]

StoreOf(s) ==
    [segments |-> s.segments, special_points |-> s.special_points,
     punctures |-> s.punctures, next_seg_id |-> s.next_seg_id,
     next_sp_id |-> s.next_sp_id, next_puncture_id |-> s.next_puncture_id]

AddOps == {"add_segment", "add_segment_chain", "add_special_point", "add_puncture"}
MutatingOps == AddOps \cup {"reset"}
UiOps == {"set_mode", "toggle_chain"}
DisplayOps == {"toggle_grid", "toggle_snap", "resize"}

\* The operations pre holds (none when pre is empty).
PreOps == IF pre = <<>> THEN <<>> ELSE pre[1].ops

\* pre after the operation named o: a reset, or an undo, starts a record of
\* the store before it; an undo after a reset, a redo after that, a
\* mutation after an undo and a redo with nothing to redo after that
\* extend it; anything else ends it.
Trail(o) ==
    IF o = "reset"
    THEN <<[ops |-> <<"reset">>, store |-> Store]>>
    ELSE IF o = "undo"
    THEN IF PreOps = <<"reset">>
         THEN <<[pre[1] EXCEPT !.ops = <<"reset", "undo">>]>>
         ELSE <<[ops |-> <<"undo">>, store |-> Store]>>
    ELSE IF o = "redo" /\ PreOps = <<"reset", "undo">>
    THEN <<[pre[1] EXCEPT !.ops = <<"reset", "undo", "redo">>]>>
    ELSE IF o \in AddOps /\ PreOps \in {<<"undo">>, <<"reset", "undo">>}
    THEN <<[pre[1] EXCEPT !.ops = <<"undo", "mutation">>]>>
    ELSE IF o = "redo_nothing" /\ PreOps = <<"undo", "mutation">>
    THEN <<[pre[1] EXCEPT !.ops = <<"undo", "mutation", "redo_nothing">>]>>
    ELSE <<>>

\* The kind of the operation named o, for the sequence after a mark.
Kind(o) ==
    IF o \in MutatingOps THEN "mutation"
    ELSE IF o \in {"undo", "redo"} THEN o
    ELSE "other"

\* The sequences followed after a mark: mutations then at most as many
\* undos, or an undo and then a redo.
Followed(q) ==
    \/ q \in {<<"undo">>, <<"undo", "redo">>}
    \/ /\ \A i \in 1..Len(q) : q[i] \in {"mutation", "undo"}
       /\ \A i, j \in 1..Len(q) : (i < j /\ q[i] = "undo") => q[j] = "undo"
       /\ 2 * Cardinality({i \in 1..Len(q) : q[i] = "undo"}) <= Len(q)

\* What the observers record of one operation named o.
Observe(o) ==
    /\ ui' = IF o \in UiOps THEN ui + 1 ELSE ui
    /\ disp' = IF o \in DisplayOps THEN disp + 1 ELSE disp
    /\ pre' = Trail(o)
    /\ IF mark = <<>> THEN UNCHANGED <<mark, seq>>
       ELSE IF Followed(Append(seq, Kind(o)))
            THEN seq' = Append(seq, Kind(o)) /\ UNCHANGED mark
       ELSE mark' = <<>> /\ seq' = <<>>

\* ----- Initial state (App.__init__) -----
InitApp ==
    /\ mode = "segment"
    /\ pending_p0 = None
    /\ segments = <<>>
    /\ special_points = <<>>
    /\ punctures = <<>>
    /\ next_seg_id = 1
    /\ next_sp_id = 1
    /\ next_puncture_id = 1
    /\ grid_on = TRUE
    /\ chain_mode = FALSE
    /\ snap_to_integer = SNAP_TO_INTEGER
    /\ canvas = InitialCanvas
    /\ px_per_unit = PxPerUnit(InitialCanvas)
    /\ restoring = FALSE
    /\ history = <<Snapshot("segment", None, <<>>, <<>>, <<>>, 1, 1, 1, TRUE, FALSE)>>
    /\ future = <<>>
    /\ status = ""

\* The observers at the start.
InitObservers ==
    /\ ui = 0
    /\ disp = 0
    /\ pre = <<>>
    /\ mark = <<>>
    /\ seq = <<>>

Init == InitApp /\ InitObservers

\* ----- Undo / Redo -----
\* A weaker test for undo(): any entry at all.
AnyHistory == Len(history) > 0

\* undo()'s test for something to undo (line 237).
CanUndo == Len(history) > 1

\* A test for redo() that always passes.
AlwaysRedo == TRUE

\* redo()'s test for something to redo (line 246).
CanRedo == future # <<>>

\* An undo() that pops nothing.
Unpopped(h) == h

\* An undo() that drops every entry of history.
Emptied(h) == <<>>

\* The history stack after undo()'s pop (line 240).
HistoryAfterUndo(h) == Front(h)

\* undo(): with nothing to undo a status only; else the top of history moves
\* to future and the entry below it is restored.  (history[-1] of an empty
\* list raises IndexError after the pop: the handler ends there.)
Undo ==
    IF ~CanUndo
    THEN /\ status' = "Nothing to undo."
         /\ UNCHANGED <<mode, pending_p0, segments, special_points, punctures,
                        next_seg_id, next_sp_id, next_puncture_id, grid_on,
                        chain_mode, snap_to_integer, px_per_unit, canvas,
                        history, future, restoring>>
         /\ Observe("undo_nothing")
    ELSE IF Len(history) < 2
    THEN /\ history' = HistoryAfterUndo(history)
         /\ UNCHANGED <<mode, pending_p0, segments, special_points, punctures,
                        next_seg_id, next_sp_id, next_puncture_id, grid_on,
                        chain_mode, snap_to_integer, px_per_unit, canvas,
                        future, restoring, status>>
         /\ Observe("undo_error")
    ELSE /\ history' = HistoryAfterUndo(history)
         /\ future' = Append(future, Last(history))
         /\ RestoreState(history[Len(history) - 1])
         /\ UNCHANGED <<snap_to_integer, px_per_unit, canvas>>
         /\ Observe("undo")

\* redo(): with nothing to redo a status only; else the top of future moves
\* back to history and is restored.  (pop of an empty list raises
\* IndexError before anything changes.)
Redo ==
    IF ~CanRedo
    THEN /\ status' = "Nothing to redo."
         /\ UNCHANGED <<mode, pending_p0, segments, special_points, punctures,
                        next_seg_id, next_sp_id, next_puncture_id, grid_on,
                        chain_mode, snap_to_integer, px_per_unit, canvas,
                        history, future, restoring>>
         /\ Observe("redo_nothing")
    ELSE IF future = <<>>
    THEN /\ UNCHANGED appvars
         /\ Observe("redo_error")
    ELSE /\ future' = Front(future)
         /\ history' = Append(history, Last(future))
         /\ RestoreState(Last(future))
         /\ UNCHANGED <<snap_to_integer, px_per_unit, canvas>>
         /\ Observe("redo")

\* ----- Mode / UI -----
SetMode(m) ==
    /\ ui < MaxUi
    /\ mode' = m
    /\ pending_p0' = IF m = "segment" /\ ~chain_mode THEN None ELSE pending_p0
    /\ status' = "Mode set."
    /\ UNCHANGED <<segments, special_points, punctures, next_seg_id, next_sp_id,
                   next_puncture_id, grid_on, chain_mode, snap_to_integer,
                   px_per_unit, canvas, history, future, restoring>>
    /\ Observe("set_mode")

ToggleChain ==
    /\ ui < MaxUi
    /\ chain_mode' = ~chain_mode
    /\ pending_p0' = IF ~chain_mode /\ segments # <<>> THEN Last(segments).p1
                     ELSE IF chain_mode THEN None
                     ELSE pending_p0
    /\ status' = "Chain Mode."
    /\ UNCHANGED <<mode, segments, special_points, punctures, next_seg_id,
                   next_sp_id, next_puncture_id, grid_on, snap_to_integer,
                   px_per_unit, canvas, history, future, restoring>>
    /\ Observe("toggle_chain")

ToggleGrid ==
    /\ disp < MaxDisplay
    /\ grid_on' = ~grid_on
    /\ UNCHANGED <<mode, pending_p0, segments, special_points, punctures,
                   next_seg_id, next_sp_id, next_puncture_id, chain_mode,
                   snap_to_integer, px_per_unit, canvas, history, future,
                   restoring, status>>
    /\ Observe("toggle_grid")

\* A toggle_snap() that records a snapshot as a store mutation does.
ToggleSnapRecorded ==
    /\ disp < MaxDisplay
    /\ Len(history) < MaxHistory
    /\ snap_to_integer' = ~snap_to_integer
    /\ status' = "Snap-to-integer."
    /\ history' = Append(history, CurrentSnapshot)
    /\ future' = <<>>
    /\ UNCHANGED <<mode, pending_p0, segments, special_points, punctures,
                   next_seg_id, next_sp_id, next_puncture_id, grid_on,
                   chain_mode, px_per_unit, canvas, restoring>>
    /\ Observe("toggle_snap")

ToggleSnap ==
    /\ disp < MaxDisplay
    /\ snap_to_integer' = ~snap_to_integer
    /\ status' = "Snap-to-integer."
    /\ UNCHANGED <<mode, pending_p0, segments, special_points, punctures,
                   next_seg_id, next_sp_id, next_puncture_id, grid_on,
                   chain_mode, px_per_unit, canvas, history, future, restoring>>
    /\ Observe("toggle_snap")

\* on_resize(event) of a canvas whose size has changed to wh.
OnResize(wh) ==
    /\ disp < MaxDisplay
    /\ wh # canvas
    /\ canvas' = wh
    /\ px_per_unit' = PxPerUnit(wh)
    /\ UNCHANGED <<mode, pending_p0, segments, special_points, punctures,
                   next_seg_id, next_sp_id, next_puncture_id, grid_on,
                   chain_mode, snap_to_integer, history, future, restoring,
                   status>>
    /\ Observe("resize")

\* A reset() that leaves the segment counter's value in every counter.
KeptCounter == next_seg_id

\* The value reset() gives each id counter (lines 278-280).
ResetCounter == 1

\* A clear() that removes nothing.
Kept(list) == list

\* A list after list.clear() (lines 275-277).
Cleared(list) == <<>>

\* reset(): a snapshot of the state before, the cleared store, a snapshot of
\* the state after.
Reset ==
    /\ Len(history) + 2 <= MaxHistory
    /\ LET h1 == PushHistory(history, CurrentSnapshot)
           blank == Snapshot(mode, None, Cleared(segments),
                             Cleared(special_points), Cleared(punctures),
                             ResetCounter, ResetCounter, ResetCounter,
                             grid_on, chain_mode)
       IN  /\ history' = PushHistory(h1, blank)
           /\ future' = PushFuture(PushFuture(future))
    /\ pending_p0' = None
    /\ segments' = Cleared(segments)
    /\ special_points' = Cleared(special_points)
    /\ punctures' = Cleared(punctures)
    /\ next_seg_id' = ResetCounter
    /\ next_sp_id' = ResetCounter
    /\ next_puncture_id' = ResetCounter
    /\ status' = "Cleared all."
    /\ UNCHANGED <<mode, grid_on, chain_mode, snap_to_integer, px_per_unit,
                   canvas, restoring>>
    /\ Observe("reset")

\* ----- Click handling -----
\* A counter that is not advanced.
SameId(n) == n

\* A counter advanced by two.
SkipId(n) == n + 2

\* An id counter after one id is taken (next_seg_id += 1, and the like).
NextId(n) == n + 1

\* A segment dict with its endpoints exchanged.
SwappedSegment(p0, p1) ==
    [id |-> <<"L", next_seg_id>>, p0 |-> p1, p1 |-> p0, color |-> "#111827"]

\* The new segment dict of handle_segment_click.
NewSegment(p0, p1) ==
    [id |-> <<"L", next_seg_id>>, p0 |-> p0, p1 |-> p1, color |-> "#111827"]

\* A test that finds no segment of zero length.
NeverDegenerate(p0, p1) == FALSE

\* The second click's test for a zero-length segment (line 361).
Degenerate(p0, p1) == p0 = p1

\* Lines 331-340 and 365-374: the segment is appended, the state is pushed
\* (pending_p0 still holding its old value), then pending_p0 is set to pp
\* and the status to st.
AppendSegment(seg, pp, st) ==
    /\ Len(history) < MaxHistory
    /\ next_seg_id' = NextId(next_seg_id)
    /\ segments' = Append(segments, seg)
    /\ history' = PushHistory(history,
                      Snapshot(mode, pending_p0, Append(segments, seg),
                               special_points, punctures, NextId(next_seg_id),
                               next_sp_id, next_puncture_id, grid_on, chain_mode))
    /\ future' = PushFuture(future)
    /\ pending_p0' = pp
    /\ status' = st
    /\ UNCHANGED <<mode, special_points, punctures, next_sp_id, next_puncture_id,
                   grid_on, chain_mode, snap_to_integer, px_per_unit, canvas,
                   restoring>>

\* handle_segment_click(p, sx, sy)
HandleSegmentClick(p, sx, sy) ==
    LET snapped == nearest_endpoint_within_px(sx, sy)
        pt == IF snapped # None THEN snapped[1] ELSE p
    IN  IF chain_mode /\ segments # <<>>
        THEN LET seg == NewSegment(Last(segments).p1, pt)
             IN  /\ AppendSegment(seg, seg.p1, "Added segment (Chain Mode).")
                 /\ Observe("add_segment_chain")
        ELSE IF pending_p0 = None
        THEN /\ pending_p0' = pt
             /\ status' = "P0 placed."
             /\ UNCHANGED <<mode, segments, special_points, punctures, next_seg_id,
                            next_sp_id, next_puncture_id, grid_on, chain_mode,
                            snap_to_integer, px_per_unit, canvas, history, future,
                            restoring>>
             /\ Observe("p0_placed")
        ELSE IF Degenerate(pending_p0, pt)
        THEN /\ status' = "Ignored zero-length segment."
             /\ pending_p0' = None
             /\ UNCHANGED <<mode, segments, special_points, punctures, next_seg_id,
                            next_sp_id, next_puncture_id, grid_on, chain_mode,
                            snap_to_integer, px_per_unit, canvas, history, future,
                            restoring>>
             /\ Observe("degenerate")
        ELSE /\ AppendSegment(NewSegment(pending_p0, pt), None, "Added segment.")
             /\ Observe("add_segment")

\* A test for segments that never finds the store empty.
SomeSegments == FALSE

\* handle_point_click's test for an empty segment store (line 386).
NoSegments == segments = <<>>

\* handle_point_click(q)
HandlePointClick(q) ==
    IF NoSegments
    THEN /\ status' = "No segments yet."
         /\ UNCHANGED <<mode, pending_p0, segments, special_points, punctures,
                        next_seg_id, next_sp_id, next_puncture_id, grid_on,
                        chain_mode, snap_to_integer, px_per_unit, canvas,
                        history, future, restoring>>
         /\ Observe("no_segments")
    ELSE LET best == ProjectLoop(segments, 1, q, <<>>)
         IN  IF best = <<>>
             THEN /\ status' = "Could not place point."
                  /\ UNCHANGED <<mode, pending_p0, segments, special_points,
                                 punctures, next_seg_id, next_sp_id,
                                 next_puncture_id, grid_on, chain_mode,
                                 snap_to_integer, px_per_unit, canvas, history,
                                 future, restoring>>
                  /\ Observe("no_valid_projection")
             ELSE LET sp == [id |-> <<"S", next_sp_id>>, seg_id |-> best[1].seg.id,
                             t |-> best[1].t, xy |-> best[1].xy]
                  IN  /\ Len(history) < MaxHistory
                      /\ next_sp_id' = NextId(next_sp_id)
                      /\ special_points' = Append(special_points, sp)
                      /\ history' = PushHistory(history,
                             Snapshot(mode, pending_p0, segments,
                                      Append(special_points, sp), punctures,
                                      next_seg_id, NextId(next_sp_id),
                                      next_puncture_id, grid_on, chain_mode))
                      /\ future' = PushFuture(future)
                      /\ status' = "Added special point."
                      /\ UNCHANGED <<mode, pending_p0, segments, punctures,
                                     next_seg_id, next_puncture_id, grid_on,
                                     chain_mode, snap_to_integer, px_per_unit,
                                     canvas, restoring>>
                      /\ Observe("add_special_point")

\* handle_puncture_click(p)
HandlePunctureClick(p) ==
    LET pu == [id |-> <<"P", next_puncture_id>>, xy |-> p]
    IN  /\ Len(history) < MaxHistory
        /\ next_puncture_id' = NextId(next_puncture_id)
        /\ punctures' = Append(punctures, pu)
        /\ history' = PushHistory(history,
               Snapshot(mode, pending_p0, segments, special_points,
                        Append(punctures, pu), next_seg_id, next_sp_id,
                        NextId(next_puncture_id), grid_on, chain_mode))
        /\ future' = PushFuture(future)
        /\ status' = "Added puncture."
        /\ UNCHANGED <<mode, pending_p0, segments, special_points, next_seg_id,
                       next_sp_id, grid_on, chain_mode, snap_to_integer,
                       px_per_unit, canvas, restoring>>
        /\ Observe("add_puncture")

\* on_click(event) at the canvas pixel (sx, sy)
OnClick(sx, sy) ==
    LET p == screen_to_world(sx, sy)
    IN  \/ mode = "segment" /\ HandleSegmentClick(p, sx, sy)
        \/ mode = "point" /\ HandlePointClick(p)
        \/ mode = "puncture" /\ HandlePunctureClick(p)

\* ----- Specification -----
Next ==
    \/ \E c \in Clicks : OnClick(c[1], c[2])
    \/ \E m \in Modes : SetMode(m)
    \/ ToggleChain
    \/ ToggleGrid
    \/ ToggleSnap
    \/ \E wh \in CanvasSizes : OnResize(wh)
    \/ Reset
    \/ Undo
    \/ Redo

Spec == Init /\ [][Next]_vars

\* The same program with an observer that may mark the session at any
\* moment; the operations count what follows the mark.
Mark ==
    /\ mark = <<>>
    /\ mark' = <<Session>>
    /\ seq' = <<>>
    /\ UNCHANGED <<appvars, ui, disp, pre>>

NextSeq == Next \/ Mark
SpecSeq == Init /\ [][NextSeq]_vars

\* ----- Steps the properties speak of -----
\* A click on the canvas.
ClickStep == \E c \in Clicks : OnClick(c[1], c[2])

\* A successful addSegment, by either path.
AddSegmentStep ==
    ClickStep /\ mode = "segment" /\ Len(segments') = Len(segments) + 1

\* A successful addSegment, addSpecialPoint or addPuncture.
AddStep == ClickStep /\ Store' # Store

\* The first endpoint a segment click would complete (None: it places P0).
FirstEnd ==
    IF chain_mode /\ segments # <<>> THEN Last(segments).p1 ELSE pending_p0

\* The world point a click at pixel c resolves to in segment mode.
ClickPoint(c) ==
    LET snapped == nearest_endpoint_within_px(c[1], c[2])
    IN  IF snapped # None THEN snapped[1] ELSE screen_to_world(c[1], c[2])

\* An addSegment attempt whose two endpoints are equal.
DegenerateAttempt ==
    /\ mode = "segment"
    /\ FirstEnd # None
    /\ \E c \in Clicks : OnClick(c[1], c[2]) /\ ClickPoint(c) = FirstEnd

\* The number of undos in a sequence of operation kinds.
Undos(q) == Cardinality({i \in 1..Len(q) : q[i] = "undo"})

\* The store reset() leaves.
EmptyStore ==
    [segments |-> <<>>, special_points |-> <<>>, punctures |-> <<>>,
     next_seg_id |-> 1, next_sp_id |-> 1, next_puncture_id |-> 1]

\* The snapshots on the two stacks.
Recorded == history \o future

\* ----- Properties -----
\* C1: after N successful mutating operations (adds, reset) followed by N
\* undos, the session equals the session before the sequence began.
C1_UndoAllRestores ==
    (mark # <<>> /\ seq # <<>> /\ seq[1] = "mutation"
                 /\ 2 * Undos(seq) = Len(seq))
        => Session = mark[1]

\* C2: a redo right after an undo restores exactly the session (mode,
\* pending first-click point, collections, counters, toggles) that existed
\* just before that undo.
C2_RedoRestores ==
    (mark # <<>> /\ seq = <<"undo", "redo">>) => Session = mark[1]

\* C3: no segment in the store has p0 equal to p1, whichever path (two
\* clicks or chain mode) created it.
C3_NoZeroLength ==
    \A i \in 1..Len(segments) : segments[i].p0 # segments[i].p1

\* C4 (as stated): a successful addSegment yields an id number that
\* exceeds every segment id issued earlier in the session; every id held by
\* a snapshot on the history or future stack was issued earlier.
C4_NeverReused ==
    [][AddSegmentStep =>
          \A k \in 1..Len(Recorded) :
              \A i \in 1..Len(Recorded[k].segments) :
                  Recorded[k].segments[i].id[2] < Last(segments').id[2]]_vars

\* C4 (amended): a successful addSegment yields an id number that exceeds
\* the id number of every segment in the store at that moment; reset and
\* undo take the counter back, so ids issued before them come again.
C4_ExceedsStore ==
    [][AddSegmentStep =>
          \A i \in 1..Len(segments) :
              segments[i].id[2] < Last(segments').id[2]]_vars

\* Two segments in the store, the second just added in chain mode.
C4_Witness ==
    Len(segments) = 2 /\ status = "Added segment (Chain Mode)."

\* C5: a successful mutating operation empties the future stack; once empty
\* it stays empty until an undo; and a redo on an empty future stack
\* reports "Nothing to redo." and changes nothing.
C5_FutureDiscarded ==
    [][/\ (AddStep \/ Reset) => future' = <<>>
       /\ (future = <<>> /\ future' # <<>>) => Undo
       /\ (Redo /\ future = <<>>) =>
              /\ status' = "Nothing to redo."
              /\ Session' = Session
              /\ history' = history
              /\ future' = future]_vars

\* An undo, then a fresh mutation, then a redo that found nothing to redo.
C5_Witness ==
    /\ PreOps = <<"undo", "mutation", "redo_nothing">>
    /\ status = "Nothing to redo."
    /\ future = <<>>

\* C6: an addSegment attempt with equal endpoints changes none of the three
\* collections and none of the three counters, and records no snapshot
\* (history and future unchanged).
C6_DegenerateIgnored ==
    [][DegenerateAttempt =>
          /\ Store' = Store
          /\ history' = history
          /\ future' = future]_vars

\* C7: the history stack always holds at least one entry.
C7_HistoryNonEmpty == Len(history) >= 1

\* An undo has taken history down to its single first entry.
C7_Witness ==
    Len(history) = 1 /\ future # <<>> /\ status = "State restored."

\* C8: undo with one or fewer history entries, and redo with an empty
\* future stack, leave the session, the history stack and the future stack
\* unchanged and report "Nothing to undo." / "Nothing to redo.".
C8_NothingToDo ==
    [][/\ (Undo /\ Len(history) <= 1) =>
              /\ status' = "Nothing to undo."
              /\ Session' = Session
              /\ history' = history
              /\ future' = future
       /\ (Redo /\ future = <<>>) =>
              /\ status' = "Nothing to redo."
              /\ Session' = Session
              /\ history' = history
              /\ future' = future]_vars

\* A redo found nothing to redo in a session that has segments and history.
C8_Witness ==
    status = "Nothing to redo." /\ segments # <<>> /\ Len(history) > 1

\* C9: a successful add (segment by either path, special point, puncture)
\* pushes exactly one snapshot, of the store after it, and leaves future
\* empty; reset pushes exactly two, of the store before and after it, and
\* leaves future empty.
C9_SnapshotsPushed ==
    [][/\ AddStep =>
              /\ Len(history') = Len(history) + 1
              /\ Front(history') = history
              /\ StoreOf(Last(history')) = Store'
              /\ future' = <<>>
       /\ Reset =>
              /\ Len(history') = Len(history) + 2
              /\ SubSeq(history', 1, Len(history)) = history
              /\ StoreOf(history'[Len(history) + 1]) = Store
              /\ StoreOf(Last(history')) = Store'
              /\ future' = <<>>]_vars

\* A puncture has just been added on top of earlier history.
C9_Witness ==
    status = "Added puncture." /\ Len(history) >= 3 /\ future = <<>>

\* C10: reset leaves the three collections empty and the three counters at
\* 1; one undo right after it restores the collections and counters held
\* just before the reset; one redo after that undo restores the empty store.
C10_ResetAsUnit ==
    /\ PreOps = <<"reset">> => Store = EmptyStore /\ status = "Cleared all."
    /\ PreOps = <<"reset", "undo">> => Store = pre[1].store
    /\ PreOps = <<"reset", "undo", "redo">> => Store = EmptyStore

\* A reset of a store that held a segment, undone and redone.
C10_Witness ==
    /\ PreOps = <<"reset", "undo", "redo">>
    /\ pre[1].store.segments # <<>>

\* A successful undo or redo: a snapshot is activated.
RestoreStep == (Undo /\ Len(history) > 1) \/ (Redo /\ future # <<>>)

\* C11: every snapshot captures the mode, the pending point, the three
\* collections, the three counters and the grid, chain and snap-to-integer
\* flags, so undo and redo set each of them to its value at the time the
\* activated snapshot (the new top of history) was recorded; the startup
\* snapshot, the only one that can be first in history, was recorded with
\* the snap flag at SNAP_TO_INTEGER.
C11_SnapshotEntire ==
    [][RestoreStep =>
          /\ CurrentSnapshot' = Last(history')
          /\ Len(history') = 1 => snap_to_integer' = SNAP_TO_INTEGER]_vars

\* A rejected second click of the two-click path: it resolves to the
\* pending first point.
RejectedClick ==
    /\ mode = "segment"
    /\ ~(chain_mode /\ segments # <<>>)
    /\ pending_p0 # None
    /\ \E c \in Clicks : OnClick(c[1], c[2]) /\ ClickPoint(c) = pending_p0

\* C12: a click rejected as a zero-length segment changes nothing: the
\* store, the counters, the pending first-click point, the mode and the
\* flags are the same after it as before.
C12_RejectionChangesNothing ==
    [][RejectedClick => Session' = Session]_vars

\* C13: a special-point click on an empty segment store reports "No
\* segments yet." and changes nothing: no special point, no counter, no
\* other session state, no snapshot (history and future unchanged).
C13_NoSegments ==
    [][(ClickStep /\ mode = "point" /\ segments = <<>>) =>
          /\ status' = "No segments yet."
          /\ Session' = Session
          /\ history' = history
          /\ future' = future]_vars

\* A special-point click found no segments in a session that has history.
C13_Witness ==
    status = "No segments yet." /\ mode = "point" /\ Len(history) > 1

\* C14: each successful add appends one entity to the collection of its
\* kind, keeping the entities already there, and increments that
\* collection's counter by one; the other two collections and counters are
\* unchanged.
C14_OneCollection ==
    [][AddStep =>
          /\ mode = "segment" =>
                /\ Front(segments') = segments
                /\ Len(segments') = Len(segments) + 1
                /\ next_seg_id' = next_seg_id + 1
                /\ UNCHANGED <<special_points, punctures, next_sp_id,
                               next_puncture_id>>
          /\ mode = "point" =>
                /\ Front(special_points') = special_points
                /\ Len(special_points') = Len(special_points) + 1
                /\ next_sp_id' = next_sp_id + 1
                /\ UNCHANGED <<segments, punctures, next_seg_id,
                               next_puncture_id>>
          /\ mode = "puncture" =>
                /\ Front(punctures') = punctures
                /\ Len(punctures') = Len(punctures) + 1
                /\ next_puncture_id' = next_puncture_id + 1
                /\ UNCHANGED <<segments, special_points, next_seg_id,
                               next_sp_id>>]_vars

\* A second special point has just been added next to a segment.
C14_Witness ==
    Len(special_points) = 2 /\ status = "Added special point."

\* The point p0 + t * (p1 - p0) of a segment.
Along(seg, t) ==
    <<FAdd(seg.p0[1], FMul(t, FSub(seg.p1[1], seg.p0[1]))),
      FAdd(seg.p0[2], FMul(t, FSub(seg.p1[2], seg.p0[2])))>>

\* C15: in every reachable state each special point in the store
\* references the id of a segment in the store, has t in [0, 1], and has xy
\* equal to p0 + t * (p1 - p0) of that segment.
C15_SpecialPointsOnSegments ==
    \A k \in 1..Len(special_points) :
        \E i \in 1..Len(segments) :
            /\ segments[i].id = special_points[k].seg_id
            /\ FLe(FInt(0), special_points[k].t)
            /\ FLe(special_points[k].t, FInt(1))
            /\ special_points[k].xy = Along(segments[i], special_points[k].t)

\* A special point at the middle of its segment, in a restored state.
C15_Witness ==
    /\ special_points # <<>>
    /\ special_points[1].t = <<1, 2>>
    /\ status = "State restored."

\* C16: while chain mode is on and the store holds a segment, a segment
\* added by a click has p0 equal to the p1 of the segment that was last in
\* the store at the time of the click.
C16_ChainStartsAtLastEnd ==
    [][(AddSegmentStep /\ chain_mode /\ segments # <<>>) =>
          Last(segments').p0 = Last(segments).p1]_vars

\* A second segment of non-zero length chained to the first.
C16_Witness ==
    /\ status = "Added segment (Chain Mode)."
    /\ Len(segments) = 2
    /\ segments[2].p0 = segments[1].p1
    /\ segments[2].p0 # segments[2].p1

\* C20: a successful undo moves exactly the top entry of history to the
\* top of future, and a successful redo moves exactly the top entry of
\* future to the top of history; neither creates a snapshot nor clears
\* future, so len(history) + len(future) is unchanged.
C20_RestoreNeverRecords ==
    [][/\ (Undo /\ Len(history) > 1) =>
              /\ history' = Front(history)
              /\ future' = Append(future, Last(history))
       /\ (Redo /\ future # <<>>) =>
              /\ future' = Front(future)
              /\ history' = Append(history, Last(future))
       /\ RestoreStep =>
              Len(history') + Len(future') = Len(history) + Len(future)]_vars

\* Two entries undone out of four.
C20_Witness ==
    status = "State restored." /\ Len(history) = 2 /\ Len(future) = 2

\* ----- The pixel-to-world transform on its own -----
\* Canvas sizes, even and odd, that give px_per_unit 1, 2 and 3.
PxCanvases == {<<150, 150>>, <<151, 151>>, <<152, 153>>, <<213, 213>>}
\* Pixel coordinates of clicks: the canvas corners, its middle, and
\* positions inside and outside the world box.
PxCoords == {0, 40, 75, 76, 79, 107, 150, 213}

\* The program started, then resized to the canvas wh and with the snap
\* toggle at sn and the chain toggle at ch (none of which is recorded in
\* the history).
InitOn(wh, sn, ch) ==
    /\ mode = "segment"
    /\ pending_p0 = None
    /\ segments = <<>>
    /\ special_points = <<>>
    /\ punctures = <<>>
    /\ next_seg_id = 1
    /\ next_sp_id = 1
    /\ next_puncture_id = 1
    /\ grid_on = TRUE
    /\ chain_mode = ch
    /\ snap_to_integer = sn
    /\ canvas = wh
    /\ px_per_unit = PxPerUnit(wh)
    /\ restoring = FALSE
    /\ history = <<Snapshot("segment", None, <<>>, <<>>, <<>>, 1, 1, 1, TRUE, FALSE)>>
    /\ future = <<>>
    /\ status = ""
    /\ InitObservers

InitPx == \E wh \in PxCanvases : \E sn \in BOOLEAN : InitOn(wh, sn, FALSE)

\* on_click at (sx, sy) inside the canvas, as the first click of a segment
\* on an empty store: pending_p0 becomes screen_to_world(sx, sy).
PxClick(sx, sy) ==
    /\ sx <= canvas[1]
    /\ sy <= canvas[2]
    /\ mode = "segment"
    /\ pending_p0 = None
    /\ HandleSegmentClick(screen_to_world(sx, sy), sx, sy)

NextPx == \E sx \in PxCoords : \E sy \in PxCoords : PxClick(sx, sy)
SpecPx == InitPx /\ [][NextPx]_vars

\* A coordinate within [-WORLD_RANGE, WORLD_RANGE], in lowest terms, whose
\* denominator divides 2 * px_per_unit, and is 1 when the snap is on.
GoodCoordinate(x) ==
    /\ FLe(FInt(-WORLD_RANGE), x)
    /\ FLe(x, FInt(WORLD_RANGE))
    /\ x[2] > 0
    /\ GCD(Abs(x[1]), x[2]) = 1
    /\ (2 * px_per_unit) % x[2] = 0
    /\ snap_to_integer => x[2] = 1

\* C17: for every integer pixel position and every px_per_unit,
\* screen_to_world returns a point whose two coordinates lie in [-R, R] and
\* have a denominator dividing 2 * px_per_unit; with snap-to-integer on both
\* are integers.
C17_PixelToWorld ==
    pending_p0 # None =>
        GoodCoordinate(pending_p0[1]) /\ GoodCoordinate(pending_p0[2])

\* A click left of the world box at a height that is an odd number of
\* half pixels off the middle: x clamped, y with the full denominator.
C17_Witness ==
    /\ pending_p0 # None
    /\ px_per_unit > 1
    /\ pending_p0[1] = FInt(-WORLD_RANGE)
    /\ pending_p0[2][2] = 2 * px_per_unit

\* ----- Snapping and projection on a wider canvas -----
\* A canvas with px_per_unit 4, its middle at pixel (136, 136).
GeoCanvas == <<272, 272>>
\* Clicks at the world points (0,0), (4,0), (2,1), (10,10) and (-5,-5).
GeoClicks == {<<136, 136>>, <<152, 136>>, <<144, 132>>, <<176, 96>>, <<116, 156>>}

InitGeo == \E ch \in BOOLEAN : InitOn(GeoCanvas, SNAP_TO_INTEGER, ch)
\* on_click at (sx, sy) in segment or special-point mode.
GeoClick(sx, sy) ==
    \/ mode = "segment" /\ HandleSegmentClick(screen_to_world(sx, sy), sx, sy)
    \/ mode = "point" /\ HandlePointClick(screen_to_world(sx, sy))

NextGeo ==
    \/ \E c \in GeoClicks : GeoClick(c[1], c[2])
    \/ SetMode("point")
SpecGeo == InitGeo /\ [][NextGeo]_vars

\* The squared pixel distances of the endpoints, in enumeration order, to
\* the click c.
EndDists(c) ==
    [i \in 1..Len(list_endpoints) |->
        PixelDist2(list_endpoints[i][1], c[1], c[2])]

\* The places in d of its smallest value (more than one: a tie).
Smallest(d) ==
    {i \in 1..Len(d) : \A j \in 1..Len(d) : FLe(d[i], d[j])}

\* Whether the smallest value of d is within the snap radius.
InRadius(d) ==
    \E i \in Smallest(d) : FLe(d[i], FInt(SNAP_PX * SNAP_PX))

\* The first of a non-empty set of places.
First(S) == CHOOSE i \in S : \A j \in S : i <= j

\* The endpoints closest to the click c, when within the radius.
Tied(c) == IF InRadius(EndDists(c)) THEN Smallest(EndDists(c)) ELSE {}

\* What the claim as stated asks of the result r for distances d: none
\* beyond the radius; on a tie the p0 of the lowest-id tied segment.
TieGivesP0(r, d) ==
    IF ~InRadius(d) THEN r = None
    ELSE /\ r # None
         /\ Cardinality(Smallest(d)) > 1 =>
               r[1] = segments[(First(Smallest(d)) + 1) \div 2].p0

\* What the amended claim asks of the result r for distances d: none
\* beyond the radius; else the first of the closest endpoints.
FirstOfClosest(r, d) ==
    IF ~InRadius(d) THEN r = None
    ELSE /\ r # None
         /\ r[1] = list_endpoints[First(Smallest(d))][1]
         /\ r[2] = list_endpoints[First(Smallest(d))][2]

\* C18 (as stated): nearest_endpoint_within_px returns none when there is
\* no endpoint or the closest one is beyond the radius; when several
\* endpoints are equally close and within the radius it returns the p0 of
\* the lowest-id segment among the tied ones.
C18_TieGivesP0 ==
    \A c \in GeoClicks :
        TieGivesP0(nearest_endpoint_within_px(c[1], c[2]), EndDists(c))

\* C18 (amended): nearest_endpoint_within_px returns none when there is no
\* endpoint or the closest one is beyond the radius; otherwise it returns
\* the first, in enumeration order (segments in insertion order, p0 before
\* p1), of the endpoints at the smallest distance, which is a p1 when no p0
\* comes before it among the tied ones.
C18_FirstOfClosest ==
    \A c \in GeoClicks :
        FirstOfClosest(nearest_endpoint_within_px(c[1], c[2]), EndDists(c))

\* Two segments whose second endpoints are equally close to a click, within
\* the radius, while another click has every endpoint beyond the radius.
C18_Witness ==
    /\ \E c \in GeoClicks :
          /\ Cardinality(Tied(c)) > 1
          /\ list_endpoints[First(Tied(c))][2][2] = "P1"
    /\ \E c \in GeoClicks : segments # <<>> /\ ~InRadius(EndDists(c))

\* The world point with integer coordinates (x, y).
W(x, y) == <<FInt(x), FInt(y)>>

\* v = p1 - p0 of a segment, and q - p0 of a query.
Dir(seg) == <<FSub(seg.p1[1], seg.p0[1]), FSub(seg.p1[2], seg.p0[2])>>
Rel(seg, q) == <<FSub(q[1], seg.p0[1]), FSub(q[2], seg.p0[2])>>

\* ((q - p0) . v) / (v . v)
Ratio(r, v) == FDiv(dot(r[1], r[2], v[1], v[2]), dot(v[1], v[2], v[1], v[2]))

\* clamp(t, 0, 1)
Clamped01(t) ==
    IF FLt(t, FInt(0)) THEN FInt(0)
    ELSE IF FLt(FInt(1), t) THEN FInt(1)
    ELSE t

\* The parameter of the query q on a segment of non-zero length.
ParamOf(seg, q) == Clamped01(Ratio(Rel(seg, q), Dir(seg)))

\* The squared pixel distance from q to its candidate on the segment.
FootDist(seg, q) ==
    Dist2(world_to_screen(Along(seg, ParamOf(seg, q))[1],
                          Along(seg, ParamOf(seg, q))[2]),
          world_to_screen(q[1], q[2]))

\* The places of the segments of non-zero length.
Usable == {i \in 1..Len(segments) : segments[i].p0 # segments[i].p1}

\* sp is the candidate of the usable segment nearest to q in pixels, the
\* earliest-inserted one among equally near ones.
Projected(sp, q) ==
    \E i \in Usable :
        /\ sp.seg_id = segments[i].id
        /\ sp.t = ParamOf(segments[i], q)
        /\ sp.xy = Along(segments[i], sp.t)
        /\ \A j \in Usable :
              /\ FLe(FootDist(segments[i], q), FootDist(segments[j], q))
              /\ j < i => FLt(FootDist(segments[i], q), FootDist(segments[j], q))

\* The two worked cases: (0,0)-(4,0) with query (2,1), and (0,0)-(10,10)
\* with query (-5,-5).
WorkedCases(sp, q) ==
    /\ (/\ Len(segments) = 1
        /\ segments[1].p0 = W(0, 0)
        /\ segments[1].p1 = W(4, 0)
        /\ q = W(2, 1)) => (sp.t = <<1, 2>> /\ sp.xy = W(2, 0))
    /\ (/\ Len(segments) = 1
        /\ segments[1].p0 = W(0, 0)
        /\ segments[1].p1 = W(10, 10)
        /\ q = W(-5, -5)) => (sp.t = FInt(0) /\ sp.xy = W(0, 0))

\* C19: a successful special-point click with query q stores, for the
\* segment of non-zero length whose candidate p0 + t * v, with
\* t = clamp(((q - p0) . v) / (v . v), 0, 1), is nearest to q in squared
\* pixel distance (the earliest-inserted winning ties), that t and that
\* candidate; (0,0)-(4,0) with (2,1) gives t = 1/2 and (2,0), and
\* (0,0)-(10,10) with (-5,-5) gives t = 0 and (0,0).
C19_Projection ==
    [][\A c \in GeoClicks :
          (/\ mode = "point"
           /\ GeoClick(c[1], c[2])
           /\ Len(special_points') = Len(special_points) + 1) =>
              /\ Projected(Last(special_points'), screen_to_world(c[1], c[2]))
              /\ WorkedCases(Last(special_points'),
                             screen_to_world(c[1], c[2]))]_vars

\* The first worked case has just been stored.
C19_Witness ==
    /\ status = "Added special point."
    /\ Len(segments) = 1
    /\ segments[1].p0 = W(0, 0)
    /\ segments[1].p1 = W(4, 0)
    /\ Len(special_points) = 1
    /\ special_points[1].t = <<1, 2>>
    /\ special_points[1].xy = W(2, 0)

\* C21: in every reachable state with a non-empty segment store the first
\* segment has non-zero length, so a special-point click on a non-empty
\* store finds a projection for every query and "Could not place point."
\* is never reported.
C21_FirstSegmentUsable ==
    /\ segments # <<>> => segments[1].p0 # segments[1].p1
    /\ \A c \in GeoClicks :
          segments # <<>> =>
              ProjectLoop(segments, 1, screen_to_world(c[1], c[2]), <<>>) # <<>>
    /\ status # "Could not place point."

\* A special point has just been placed on a store that holds a segment of
\* zero length after its first segment.
C21_Witness ==
    /\ status = "Added special point."
    /\ \E i \in 1..Len(segments) : segments[i].p0 = segments[i].p1

\* C22: between operations, in every reachable state, the three collections
\* and the three id counters of the snapshot on top of history equal the
\* live collections and counters of the session.
C22_TopIsLive ==
    /\ history # <<>>
    /\ StoreOf(Last(history)) = Store

\* An undo has gone back to a store that holds a puncture, an entry below
\* it still on history.
C22_Witness ==
    /\ status = "State restored."
    /\ punctures # <<>>
    /\ future # <<>>
    /\ Len(history) >= 2

\* The ids "L1" .. "Ln" (kind "L", "S" or "P") in the order of list.
DenseIds(list, kind) ==
    \A i \in 1..Len(list) : list[i].id = <<kind, i>>

\* C23: in every reachable state each id counter is the size of its
\* collection plus one and the ids of each collection are exactly L1..Ln
\* (S1..Sn, P1..Pn) in insertion order, hence pairwise distinct, whatever
\* the interleaving of adds, resets, undos and redos.
C23_IdsDense ==
    /\ next_seg_id = Len(segments) + 1
    /\ next_sp_id = Len(special_points) + 1
    /\ next_puncture_id = Len(punctures) + 1
    /\ DenseIds(segments, "L")
    /\ DenseIds(special_points, "S")
    /\ DenseIds(punctures, "P")
    /\ \A i, j \in 1..Len(segments) :
          segments[i].id = segments[j].id => i = j
    /\ \A i, j \in 1..Len(special_points) :
          special_points[i].id = special_points[j].id => i = j
    /\ \A i, j \in 1..Len(punctures) :
          punctures[i].id = punctures[j].id => i = j

\* A reset has started the counters over while a snapshot that holds
\* puncture P1 and the counter at 2 is still recorded.
C23_Witness ==
    /\ punctures = <<>>
    /\ next_puncture_id = 1
    /\ \E i \in 1..Len(history) :
          Len(history[i].punctures) = 1 /\ history[i].next_puncture_id = 2

\* The snapshot __init__ pushes (lines 145-149).
StartupSnapshot ==
    Snapshot("segment", None, <<>>, <<>>, <<>>, 1, 1, 1, TRUE, FALSE)

\* The session under repeated undo(): the Tk main loop runs the handler of
\* every Ctrl+Z key press and Undo button press (bindings of lines 106-143),
\* so an undo() that is asked for is not put off for ever.
SpecUndo == Init /\ [][Next]_vars /\ WF_vars(Undo)

\* C24: the bottom entry of history is always the startup snapshot (empty
\* collections, counters at 1), and an undo() that finds nothing to undo
\* finds and leaves the store empty with all three counters at 1; every
\* other undo() shortens history by exactly one entry; and from any
\* reachable state, once nothing but undo() is called, "Nothing to undo."
\* is reported after finitely many calls, with the store empty then.
C24_UndoDrains ==
    /\ [][/\ history # <<>>
          /\ history[1] = StartupSnapshot
          /\ Undo =>
                 IF Len(history) > 1
                 THEN /\ Len(history') = Len(history) - 1
                      /\ Len(history') >= 1
                      /\ history'[1] = StartupSnapshot
                 ELSE /\ status' = "Nothing to undo."
                      /\ Store = EmptyStore
                      /\ Store' = EmptyStore
                      /\ history' = history]_vars
    /\ \/ []<><<~Undo>>_vars
       \/ []<>(status = "Nothing to undo." /\ Store = EmptyStore)

\* Two undos have drained history and a third has reported that nothing is
\* left to undo.
C24_Witness ==
    /\ status = "Nothing to undo."
    /\ Len(future) = 2
    /\ Len(history) = 1

\* The first click of a two-click segment.
FirstClick ==
    /\ ClickStep
    /\ mode = "segment"
    /\ ~(chain_mode /\ segments # <<>>)
    /\ pending_p0 = None

\* C25: set_mode, toggle_grid, toggle_chain, toggle_snap and the first
\* click of a two-click segment leave history, future, the three
\* collections and the three counters unchanged, so a pending redo stays
\* available across them.
C25_NonMutationsKeepStacks ==
    [][((\E m \in Modes : SetMode(m)) \/ ToggleGrid \/ ToggleChain
            \/ ToggleSnap \/ FirstClick) =>
           /\ history' = history
           /\ future' = future
           /\ Store' = Store
           /\ CanRedo' = CanRedo]_vars

\* A first click has set the pending point while a redo is pending.
C25_Witness ==
    /\ status = "P0 placed."
    /\ pending_p0 # None
    /\ future # <<>>
=============================================================================
